---- MODULE Spec2Model ----
(***************************************************************************)
(* Task Management API (FastAPI + Firebase): the ownership-checked CRUD    *)
(* handlers of src/main.py over the Firestore 'tasks' collection, the      *)
(* credential check of src/firebase_utils.py, and the signup handler.      *)
(*                                                                         *)
(* Python values are modelled as strings: None is the string "None", the   *)
(* booleans are "True" and "False".  A request body is a function from the *)
(* JSON keys the client sent to their values, so that "key not sent" and   *)
(* "key sent as null" are different bodies, as they are for pydantic.      *)
(*                                                                         *)
(* A task-scoped handler (PUT, DELETE, PATCH) makes two store round trips: *)
(* task_ref.get() and then the write.  Nothing makes the pair atomic, so   *)
(* each handler is two actions: the first runs the handler up to its write *)
(* and leaves the request in `inflight`, the second applies the write and  *)
(* sends the response.  create_task and get_tasks make one store call and  *)
(* are one action each.                                                    *)
(***************************************************************************)
EXTENDS Naturals, FiniteSets, Bags, TLC

\* ------------------------------------------------------------- bounds
MaxTasks == 1
MaxInFlight == 2

\* ------------------------------------------------------------- values
None == "None"
PyTrue == "True"
PyFalse == "False"

Users == {"alice", "bob"}

\* The credentials the identity provider has issued, with their subject id.
IssuedTokens == [t \in {"tok_alice", "tok_bob"} |-> IF t = "tok_alice" THEN "alice" ELSE "bob"]

\* What a client can put in the id-token header.
Tokens == DOMAIN IssuedTokens \cup {"forged"}

\* Document ids a client can name: every id the store can assign and one more.
TaskIds == 1 .. (MaxTasks + 1)

NoFields == [k \in {} |-> None]

\* JSON bodies sent to POST /tasks/.
CreateBodies ==
    { [title |-> "a"],
      [title |-> ""],
      [title |-> "a", completed |-> None],
      [title |-> "a", description |-> "d", completed |-> PyTrue,
       userId |-> "bob", createdAt |-> 0],
      [description |-> "d"] }

\* JSON bodies sent to PUT /tasks/{id}.
UpdateBodies ==
    { NoFields,
      [title |-> None],
      [completed |-> None],
      [description |-> "d", userId |-> "bob", createdAt |-> 0] }

VARIABLES
    tasks,      \* the 'tasks' collection: document id -> document
    nextId,     \* the next id collection.document() hands out
    clock,      \* the server clock datetime.datetime.now() reads
    inflight,   \* bag of requests between their task_ref.get() and their write
    reply,      \* the response sent by the last step
    creator,    \* history: document id -> subject id whose create_task made it
    deleted,    \* history: ids a delete_task request removed from the store
    streak,     \* history: the run of toggle writes that ends the store's writes so far
    authUsers,  \* identity provider: uid of each provisioned principal, by email
    profiles,   \* the 'users' collection: uid -> profile document
    signup_rq   \* the signup request being served, or the last one served

vars == <<tasks, nextId, clock, inflight, reply, creator, deleted, streak,
          authUsers, profiles, signup_rq>>

taskVars == <<tasks, nextId, inflight, creator, deleted>>
signupVars == <<authUsers, profiles, signup_rq>>

\* ------------------------------------------------------------- helpers
Restrict(f, S) == [k \in S |-> f[k]]

\* dict.update: the keys of g override those of f.
Merge(f, g) == [k \in DOMAIN f \cup DOMAIN g |-> IF k \in DOMAIN g THEN g[k] ELSE f[k]]

\* A response, with what the handler that sent it had done: the document id it
\* was asked about (0 when none) and whether it had called task_ref.get().
\* status 0: the handler has sent nothing yet.
Response(op, status, id, read) ==
    [op |-> op, status |-> status, id |-> id, read |-> read, tasks |-> {}]

NoReply == Response("none", 0, 0, FALSE)

\* src/firebase_utils.py verify_token: the decoded token, or 401.
verify_token(id_token) ==
    IF id_token \in DOMAIN IssuedTokens
    THEN [ok |-> TRUE, uid |-> IssuedTokens[id_token]]
    ELSE [ok |-> FALSE, uid |-> None]

\* pydantic TaskCreate: title is a required str; unknown keys are dropped.
TaskCreateValid(body) == "title" \in DOMAIN body /\ body["title"] # None

TaskCreate(body) ==
    [title |-> body["title"],
     description |-> IF "description" \in DOMAIN body THEN body["description"] ELSE None,
     completed |-> IF "completed" \in DOMAIN body THEN body["completed"] ELSE PyFalse]

\* Bug: the update dict keeps every key the client sent.
TaskUpdateDict_keeps_unknown_keys(body) == body

\* pydantic TaskUpdate(...).dict(exclude_unset=True): the declared fields the
\* client sent, null or not; unknown keys are dropped.
TaskUpdateDict(body) == Restrict(body, DOMAIN body \cap {"title", "description", "completed"})

\* Bug: the toggle sets the flag instead of negating it.
PyNot_always_true(x) == PyTrue

\* Python `not x` on the values a completed field can hold here.
PyNot(x) == IF x = PyTrue THEN PyFalse ELSE PyTrue

\* ------------------------------------------------------------- the store
\* Firestore DocumentReference.set(doc) on a new reference.
DocSet(store, id, doc) == [k \in DOMAIN store \cup {id} |-> IF k = id THEN doc ELSE store[k]]

\* Firestore DocumentReference.update(fields): refuses an empty field set
\* (ValueError), requires the document to exist (NotFound), and otherwise
\* overwrites exactly the given fields.
DocUpdateError(store, id, fields) ==
    IF DOMAIN fields = {} THEN "ValueError"
    ELSE IF id \notin DOMAIN store THEN "NotFound"
    ELSE "ok"

\* Bug: a write that creates the document when it is absent (set with merge).
DocUpdate_upsert(store, id, fields) ==
    IF DOMAIN fields = {} THEN store
    ELSE IF id \in DOMAIN store THEN [store EXCEPT ![id] = Merge(store[id], fields)]
    ELSE DocSet(store, id, fields)

DocUpdate(store, id, fields) ==
    IF DocUpdateError(store, id, fields) = "ok"
    THEN [store EXCEPT ![id] = Merge(store[id], fields)]
    ELSE store

\* Firestore DocumentReference.delete(): removes the document; deleting an
\* absent document is not an error.
DocDelete(store, id) == Restrict(store, DOMAIN store \ {id})

\* Bug: the query has no owner filter.
StreamWhereUserId_unfiltered(store, uid) ==
    { Merge(store[id], [id |-> id]) : id \in DOMAIN store }

\* collection.where('userId', '==', uid).stream(), each document with its id.
StreamWhereUserId(store, uid) ==
    { Merge(store[id], [id |-> id]) : id \in { i \in DOMAIN store : store[i]["userId"] = uid } }

\* A request whose handler has passed its checks and not yet written.
Pending(op, uid, id, fields) == [op |-> op, uid |-> uid, id |-> id, fields |-> fields]

Admit(rq) == inflight (+) SetToBag({rq})
Retire(rq) == inflight (-) SetToBag({rq})

\* ------------------------------------------------------------- handlers
\* POST /tasks/
create_task(id_token, body) ==
    /\ UNCHANGED <<inflight, deleted, signupVars>>
    /\ IF ~TaskCreateValid(body)
       THEN /\ reply' = Response("create_task", 422, 0, FALSE)
            /\ UNCHANGED <<tasks, nextId, clock, creator>>
       ELSE IF ~verify_token(id_token).ok
       THEN /\ reply' = Response("create_task", 401, 0, FALSE)
            /\ UNCHANGED <<tasks, nextId, clock, creator>>
       ELSE LET uid == verify_token(id_token).uid
                task_dict == Merge(TaskCreate(body),
                                   [userId |-> uid, createdAt |-> clock,
                                    completed |-> TaskCreate(body)["completed"]])
            IN /\ nextId <= MaxTasks
               /\ tasks' = DocSet(tasks, nextId, task_dict)
               /\ creator' = DocSet(creator, nextId, uid)
               /\ nextId' = nextId + 1
               /\ clock' = clock + 1
               /\ reply' = Response("create_task", 200, nextId, FALSE)

\* GET /tasks/
get_tasks(id_token) ==
    /\ UNCHANGED <<taskVars, clock, signupVars>>
    /\ IF ~verify_token(id_token).ok
       THEN reply' = Response("get_tasks", 401, 0, FALSE)
       ELSE LET uid == verify_token(id_token).uid
            IN reply' = [Response("get_tasks", 200, 0, FALSE)
                            EXCEPT !.tasks = StreamWhereUserId(tasks, uid)]

\* PUT /tasks/{task_id}, up to and including line 153.
update_task(task_id, body, id_token) ==
    /\ UNCHANGED <<tasks, nextId, clock, creator, deleted, signupVars>>
    /\ IF ~verify_token(id_token).ok
       THEN /\ reply' = Response("update_task", 401, task_id, FALSE)
            /\ UNCHANGED inflight
       ELSE LET uid == verify_token(id_token).uid
            IN IF task_id \notin DOMAIN tasks
               THEN /\ reply' = Response("update_task", 404, task_id, TRUE)
                    /\ UNCHANGED inflight
               ELSE IF tasks[task_id]["userId"] # uid
               THEN /\ reply' = Response("update_task", 403, task_id, TRUE)
                    /\ UNCHANGED inflight
               ELSE /\ BagCardinality(inflight) < MaxInFlight
                    /\ inflight' = Admit(Pending("update_task", uid, task_id, TaskUpdateDict(body)))
                    /\ reply' = Response("update_task", 0, task_id, TRUE)

\* PUT /tasks/{task_id}, lines 154-155: the write and the response.  An
\* exception of the store client is not caught: the framework answers 500.
update_task_write(rq) ==
    /\ rq.op = "update_task"
    /\ BagIn(rq, inflight)
    /\ inflight' = Retire(rq)
    /\ tasks' = DocUpdate(tasks, rq.id, rq.fields)
    /\ reply' = Response("update_task",
                         IF DocUpdateError(tasks, rq.id, rq.fields) = "ok" THEN 200 ELSE 500,
                         rq.id, TRUE)
    /\ UNCHANGED <<nextId, clock, creator, deleted, signupVars>>

\* Bug: the existence check is missing; an absent snapshot has no userId, so the
\* ownership comparison refuses the request.
delete_task_no_exists_check(task_id, id_token) ==
    /\ UNCHANGED <<tasks, nextId, clock, creator, deleted, signupVars>>
    /\ IF ~verify_token(id_token).ok
       THEN /\ reply' = Response("delete_task", 401, task_id, FALSE)
            /\ UNCHANGED inflight
       ELSE LET uid == verify_token(id_token).uid
            IN IF task_id \notin DOMAIN tasks \/ tasks[task_id]["userId"] # uid
               THEN /\ reply' = Response("delete_task", 403, task_id, TRUE)
                    /\ UNCHANGED inflight
               ELSE /\ BagCardinality(inflight) < MaxInFlight
                    /\ inflight' = Admit(Pending("delete_task", uid, task_id, NoFields))
                    /\ reply' = Response("delete_task", 0, task_id, TRUE)

\* Bug: the ownership comparison is missing.
delete_task_any_caller(task_id, id_token) ==
    /\ UNCHANGED <<tasks, nextId, clock, creator, deleted, signupVars>>
    /\ IF ~verify_token(id_token).ok
       THEN /\ reply' = Response("delete_task", 401, task_id, FALSE)
            /\ UNCHANGED inflight
       ELSE LET uid == verify_token(id_token).uid
            IN IF task_id \notin DOMAIN tasks
               THEN /\ reply' = Response("delete_task", 404, task_id, TRUE)
                    /\ UNCHANGED inflight
               ELSE /\ BagCardinality(inflight) < MaxInFlight
                    /\ inflight' = Admit(Pending("delete_task", uid, task_id, NoFields))
                    /\ reply' = Response("delete_task", 0, task_id, TRUE)

\* DELETE /tasks/{task_id}, up to and including line 170.
delete_task(task_id, id_token) ==
    /\ UNCHANGED <<tasks, nextId, clock, creator, deleted, signupVars>>
    /\ IF ~verify_token(id_token).ok
       THEN /\ reply' = Response("delete_task", 401, task_id, FALSE)
            /\ UNCHANGED inflight
       ELSE LET uid == verify_token(id_token).uid
            IN IF task_id \notin DOMAIN tasks
               THEN /\ reply' = Response("delete_task", 404, task_id, TRUE)
                    /\ UNCHANGED inflight
               ELSE IF tasks[task_id]["userId"] # uid
               THEN /\ reply' = Response("delete_task", 403, task_id, TRUE)
                    /\ UNCHANGED inflight
               ELSE /\ BagCardinality(inflight) < MaxInFlight
                    /\ inflight' = Admit(Pending("delete_task", uid, task_id, NoFields))
                    /\ reply' = Response("delete_task", 0, task_id, TRUE)

\* DELETE /tasks/{task_id}, lines 172-173.
delete_task_write(rq) ==
    /\ rq.op = "delete_task"
    /\ BagIn(rq, inflight)
    /\ inflight' = Retire(rq)
    /\ tasks' = DocDelete(tasks, rq.id)
    /\ deleted' = IF rq.id \in DOMAIN tasks THEN deleted \cup {rq.id} ELSE deleted
    /\ reply' = Response("delete_task", 200, rq.id, TRUE)
    /\ UNCHANGED <<nextId, clock, creator, signupVars>>

\* Bug: the task is fetched and its existence checked before the credential.
toggle_task_complete_reads_first(task_id, id_token) ==
    /\ UNCHANGED <<tasks, nextId, clock, creator, deleted, signupVars>>
    /\ IF task_id \notin DOMAIN tasks
       THEN /\ reply' = Response("toggle_task_complete", 404, task_id, TRUE)
            /\ UNCHANGED inflight
       ELSE IF ~verify_token(id_token).ok
       THEN /\ reply' = Response("toggle_task_complete", 401, task_id, TRUE)
            /\ UNCHANGED inflight
       ELSE LET uid == verify_token(id_token).uid
            IN IF tasks[task_id]["userId"] # uid
               THEN /\ reply' = Response("toggle_task_complete", 403, task_id, TRUE)
                    /\ UNCHANGED inflight
               ELSE LET stored == tasks[task_id]["completed"]
                        current_completed == IF stored = None THEN PyFalse ELSE stored
                    IN /\ BagCardinality(inflight) < MaxInFlight
                       /\ inflight' = Admit(Pending("toggle_task_complete", uid, task_id,
                                                    [completed |-> PyNot(current_completed)]))
                       /\ reply' = Response("toggle_task_complete", 0, task_id, TRUE)

\* PATCH /tasks/{task_id}, up to and including line 193 and the evaluation of
\* the argument of line 194.
toggle_task_complete(task_id, id_token) ==
    /\ UNCHANGED <<tasks, nextId, clock, creator, deleted, signupVars>>
    /\ IF ~verify_token(id_token).ok
       THEN /\ reply' = Response("toggle_task_complete", 401, task_id, FALSE)
            /\ UNCHANGED inflight
       ELSE LET uid == verify_token(id_token).uid
            IN IF task_id \notin DOMAIN tasks
               THEN /\ reply' = Response("toggle_task_complete", 404, task_id, TRUE)
                    /\ UNCHANGED inflight
               ELSE IF tasks[task_id]["userId"] # uid
               THEN /\ reply' = Response("toggle_task_complete", 403, task_id, TRUE)
                    /\ UNCHANGED inflight
               ELSE LET stored == tasks[task_id]["completed"]
                        current_completed == IF stored = None THEN PyFalse ELSE stored
                    IN /\ BagCardinality(inflight) < MaxInFlight
                       /\ inflight' = Admit(Pending("toggle_task_complete", uid, task_id,
                                                    [completed |-> PyNot(current_completed)]))
                       /\ reply' = Response("toggle_task_complete", 0, task_id, TRUE)

\* PATCH /tasks/{task_id}, lines 194-195.
toggle_task_complete_write(rq) ==
    /\ rq.op = "toggle_task_complete"
    /\ BagIn(rq, inflight)
    /\ inflight' = Retire(rq)
    /\ tasks' = DocUpdate(tasks, rq.id, rq.fields)
    /\ reply' = Response("toggle_task_complete",
                         IF DocUpdateError(tasks, rq.id, rq.fields) = "ok" THEN 200 ELSE 500,
                         rq.id, TRUE)
    /\ UNCHANGED <<nextId, clock, creator, deleted, signupVars>>

\* ------------------------------------------------------------- signup
Emails == {"a@x.com", "b@x.com", "c@x.com"}

\* The uid the identity provider assigns to the principal with this email.
UidOf(email) == [uid |-> email]

NoSignup == [pc |-> "idle", email |-> None, created |-> FALSE, wrote |-> FALSE]

\* POST /auth/signup, lines 63-68: auth.create_user.  The provider refuses an
\* email it already has, and may refuse the input (weak password, bad email).
signup(email, provider_accepts) ==
    /\ signup_rq.pc # "profile"
    /\ UNCHANGED <<taskVars, clock, profiles>>
    /\ IF email \in DOMAIN authUsers \/ ~provider_accepts
       THEN /\ signup_rq' = [pc |-> "done", email |-> email, created |-> FALSE, wrote |-> FALSE]
            /\ reply' = Response("signup", 400, 0, FALSE)
            /\ UNCHANGED authUsers
       ELSE /\ authUsers' = DocSet(authUsers, email, UidOf(email))
            /\ signup_rq' = [pc |-> "profile", email |-> email, created |-> TRUE, wrote |-> FALSE]
            /\ reply' = Response("signup", 0, 0, FALSE)

\* Bug: the exception is raised after the profile document was stored.
signup_profile_fails_after_write(store_ok) ==
    /\ signup_rq.pc = "profile"
    /\ UNCHANGED <<taskVars, authUsers>>
    /\ clock' = clock + 2
    /\ LET uid == authUsers[signup_rq.email]
       IN /\ profiles' = DocSet(profiles, uid,
                                [email |-> signup_rq.email, createdAt |-> clock,
                                 updatedAt |-> clock + 1])
          /\ signup_rq' = [signup_rq EXCEPT !.pc = "done", !.wrote = store_ok]
          /\ reply' = Response("signup", IF store_ok THEN 200 ELSE 400, 0, FALSE)

\* POST /auth/signup, lines 70-88: the profile write, inside the same try as
\* create_user, so that an exception of the store is answered 400 as well.
signup_profile(store_ok) ==
    /\ signup_rq.pc = "profile"
    /\ UNCHANGED <<taskVars, authUsers>>
    /\ clock' = clock + 2
    /\ LET uid == authUsers[signup_rq.email]
       IN IF store_ok
          THEN /\ profiles' = DocSet(profiles, uid,
                                     [email |-> signup_rq.email, createdAt |-> clock,
                                      updatedAt |-> clock + 1])
               /\ signup_rq' = [signup_rq EXCEPT !.pc = "done", !.wrote = TRUE]
               /\ reply' = Response("signup", 200, 0, FALSE)
          ELSE /\ UNCHANGED profiles
               /\ signup_rq' = [signup_rq EXCEPT !.pc = "done"]
               /\ reply' = Response("signup", 400, 0, FALSE)

\* ------------------------------------------------------------- history
\* History of the requests served: the last n (1 or 2) requests served were
\* toggles of document id that the store applied, and the document's completed
\* field held orig before the first of them.
NoStreak == [id |-> 0, n |-> 0, orig |-> None]

StreakAfterToggle(rq) ==
    IF rq.id \notin DOMAIN tasks THEN NoStreak
    ELSE IF streak.id = rq.id /\ streak.n = 1 THEN [streak EXCEPT !.n = 2]
    ELSE [id |-> rq.id, n |-> 1, orig |-> tasks[rq.id]["completed"]]

\* ------------------------------------------------------------- specification
Init ==
    /\ tasks = NoFields
    /\ nextId = 1
    /\ clock = 1
    /\ inflight = EmptyBag
    /\ reply = NoReply
    /\ creator = NoFields
    /\ deleted = {}
    /\ streak = NoStreak
    /\ authUsers = NoFields
    /\ profiles = NoFields
    /\ signup_rq = NoSignup

\* No handler stands between its read and its write.
Quiet == inflight = EmptyBag

\* Requests served one after the other: a handler that has read the task
\* writes before any other request is served.
Next ==
    \/ \E t \in Tokens, b \in CreateBodies :
          Quiet /\ create_task(t, b) /\ streak' = NoStreak
    \/ \E t \in Tokens : Quiet /\ get_tasks(t) /\ streak' = NoStreak
    \/ \E i \in TaskIds, b \in UpdateBodies, t \in Tokens :
          Quiet /\ update_task(i, b, t) /\ streak' = NoStreak
    \/ \E i \in TaskIds, t \in Tokens : Quiet /\ delete_task(i, t) /\ streak' = NoStreak
    \/ \E i \in TaskIds, t \in Tokens :
          /\ Quiet /\ toggle_task_complete(i, t)
          /\ streak' = IF inflight' # inflight /\ streak.id = i THEN streak ELSE NoStreak
    \/ \E rq \in BagToSet(inflight) : update_task_write(rq) /\ streak' = NoStreak
    \/ \E rq \in BagToSet(inflight) : delete_task_write(rq) /\ streak' = NoStreak
    \/ \E rq \in BagToSet(inflight) :
          toggle_task_complete_write(rq) /\ streak' = StreakAfterToggle(rq)

Spec == Init /\ [][Next]_vars

\* Requests served concurrently: up to MaxInFlight handlers stand between
\* their read and their write, and any step may run in between.
RaceCreateBodies == { [title |-> "a"] }
RaceUpdateBodies == { [description |-> "d"] }

RaceNext ==
    \/ \E t \in Tokens, b \in RaceCreateBodies : create_task(t, b) /\ UNCHANGED streak
    \/ \E t \in Tokens : get_tasks(t) /\ UNCHANGED streak
    \/ \E i \in TaskIds, b \in RaceUpdateBodies, t \in Tokens :
          update_task(i, b, t) /\ UNCHANGED streak
    \/ \E i \in TaskIds, t \in Tokens : delete_task(i, t) /\ UNCHANGED streak
    \/ \E i \in TaskIds, t \in Tokens : toggle_task_complete(i, t) /\ UNCHANGED streak
    \/ \E rq \in BagToSet(inflight) : update_task_write(rq) /\ UNCHANGED streak
    \/ \E rq \in BagToSet(inflight) : delete_task_write(rq) /\ UNCHANGED streak
    \/ \E rq \in BagToSet(inflight) : toggle_task_complete_write(rq) /\ UNCHANGED streak

RaceSpec == Init /\ [][RaceNext]_vars

SignupNext ==
    \/ \E e \in Emails, a \in BOOLEAN : signup(e, a) /\ UNCHANGED streak
    \/ \E ok \in BOOLEAN : signup_profile(ok) /\ UNCHANGED streak

SignupSpec == Init /\ [][SignupNext]_vars

\* ------------------------------------------------------------- properties
AllUpdateBodies == UpdateBodies \cup RaceUpdateBodies
AllCreateBodies == CreateBodies \cup RaceCreateBodies

\* The step answers `status` and changes neither the store nor the requests
\* waiting to write.
Refused(status) == reply'.status = status /\ tasks' = tasks /\ inflight' = inflight

\* The step is one of handler op (every handler names itself and the document
\* it was asked about in its response record).
Served(op) == reply'.op = op

\* The document the step's request asked about.
Asked == reply'.id

\* C1: a PUT, DELETE or PATCH on an existing task by an authenticated principal
\* who is not its owner is answered 403, stores nothing and queues no write.
C1_NonOwnerForbidden ==
    [][\A t \in DOMAIN IssuedTokens :
          (Asked \in DOMAIN tasks /\ IssuedTokens[t] # tasks[Asked]["userId"]) =>
             /\ \A b \in AllUpdateBodies :
                   (Served("update_task") /\ update_task(Asked, b, t)) => Refused(403)
             /\ (Served("delete_task") /\ delete_task(Asked, t)) => Refused(403)
             /\ (Served("toggle_task_complete") /\ toggle_task_complete(Asked, t))
                   => Refused(403)]_vars

\* C1 witness: a non-owner's DELETE on a stored task has just been answered 403.
C1_Witness ==
    /\ reply.op = "delete_task" /\ reply.status = 403
    /\ reply.id \in DOMAIN tasks

\* C2: get_tasks with P's credential returns exactly the tasks P created that no
\* delete removed, each as stored and with its document id, all owned by P.
C2_ListOwnTasks ==
    [][\A t \in DOMAIN IssuedTokens :
          get_tasks(t) =>
             /\ reply'.status = 200
             /\ { d["id"] : d \in reply'.tasks } =
                   { i \in DOMAIN creator : creator[i] = IssuedTokens[t] /\ i \notin deleted }
             /\ \A d \in reply'.tasks :
                   /\ d["userId"] = IssuedTokens[t]
                   /\ d = Merge(tasks[d["id"]], [id |-> d["id"]])]_vars

\* C2 witness: a listing that returned a task.
C2_Witness == reply.op = "get_tasks" /\ reply.status = 200 /\ reply.tasks # {}

\* C3: create_task stores the verified subject id and the server clock as
\* userId and createdAt whatever the body says, and no step changes the userId
\* or createdAt of a document that stays in the store.
C3_OwnerAndCreationFixed ==
    [][/\ \A t \in Tokens, b \in AllCreateBodies :
             (tasks' # tasks /\ create_task(t, b)) =>
                /\ t \in DOMAIN IssuedTokens
                /\ DOMAIN tasks' = DOMAIN tasks \cup {nextId}
                /\ nextId \notin DOMAIN tasks
                /\ tasks'[nextId]["userId"] = IssuedTokens[t]
                /\ tasks'[nextId]["createdAt"] = clock
       /\ \A i \in DOMAIN tasks \cap DOMAIN tasks' :
             /\ tasks'[i]["userId"] = tasks[i]["userId"]
             /\ tasks'[i]["createdAt"] = tasks[i]["createdAt"]]_vars

\* C3 witness: alice's task, created with an empty title, has just taken the
\* description of an update whose body also named userId bob and createdAt 0.
C3_Witness ==
    /\ reply.op = "update_task" /\ reply.status = 200
    /\ reply.id \in DOMAIN tasks
    /\ tasks[reply.id]["title"] = ""
    /\ tasks[reply.id]["description"] = "d"
    /\ tasks[reply.id]["userId"] = "alice"

C5_TitleAndCompletedWellFormed ==
    \A i \in DOMAIN tasks :
        /\ tasks[i]["title"] \notin {"", None}
        /\ tasks[i]["completed"] \in {PyTrue, PyFalse}

\* C6: a DELETE with a valid credential on an id that is not in the store (never
\* assigned, or deleted) is answered 404 and changes nothing; a document leaves
\* the store only in the write of a DELETE answered 200; an assigned id that
\* has left the store never returns.
C6_DeleteAbsentNotFound ==
    [][/\ \A t \in DOMAIN IssuedTokens :
             (Served("delete_task") /\ Asked \notin DOMAIN tasks /\ delete_task(Asked, t))
                => Refused(404)
       /\ \A i \in DOMAIN tasks \ DOMAIN tasks' :
             \E rq \in BagToSet(inflight) :
                rq.id = i /\ delete_task_write(rq) /\ reply'.status = 200
       /\ \A i \in 1 .. (nextId - 1) :
             i \notin DOMAIN tasks => i \notin DOMAIN tasks']_vars

\* C6 witness: a DELETE on an id a delete had removed has just been answered 404.
C6_Witness ==
    /\ reply.op = "delete_task" /\ reply.status = 404
    /\ reply.id \in deleted

\* C7 as claimed: the write of an owner's update of a stored task is answered
\* 200 and leaves the store with exactly the body's fields overwritten, an
\* empty body included.
C7_UpdateMergesBodyFields ==
    [][\A rq \in BagToSet(inflight) :
          (update_task_write(rq) /\ rq.id \in DOMAIN tasks) =>
             /\ reply'.status = 200
             /\ tasks' = [tasks EXCEPT ![rq.id] = Merge(tasks[rq.id], rq.fields)]]_vars

\* C8: a PUT, DELETE or PATCH checks the credential, then existence, then
\* ownership: a refused credential is answered 401 before the store is read,
\* an absent id 404 whoever asks, another principal's task 403; the handler
\* queues a write only when all three pass, and the store changes only in
\* create_task or in the write of a queued request, on that request's document.
C8_CheckOrder ==
    [][/\ \A t \in Tokens :
             ( \/ Served("update_task") /\ \E b \in AllUpdateBodies : update_task(Asked, b, t)
               \/ Served("delete_task") /\ delete_task(Asked, t)
               \/ Served("toggle_task_complete") /\ toggle_task_complete(Asked, t) ) =>
                IF t \notin DOMAIN IssuedTokens THEN Refused(401) /\ ~reply'.read
                ELSE IF Asked \notin DOMAIN tasks THEN Refused(404)
                ELSE IF tasks[Asked]["userId"] # IssuedTokens[t] THEN Refused(403)
                ELSE tasks' = tasks /\ reply'.status = 0
       /\ \A rq \in BagToSet(inflight') :
             CopiesIn(rq, inflight') > CopiesIn(rq, inflight) =>
                /\ rq.id \in DOMAIN tasks
                /\ tasks[rq.id]["userId"] = rq.uid
                /\ \E t \in DOMAIN IssuedTokens : IssuedTokens[t] = rq.uid
       /\ tasks' # tasks =>
             \/ \E t \in Tokens, b \in AllCreateBodies : create_task(t, b)
             \/ \E rq \in BagToSet(inflight) :
                   /\ CopiesIn(rq, inflight') < CopiesIn(rq, inflight)
                   /\ \A i \in (DOMAIN tasks \cup DOMAIN tasks') \ {rq.id} :
                         i \in DOMAIN tasks \cap DOMAIN tasks' /\ tasks'[i] = tasks[i]]_vars

\* C8 witness: a refused credential against a stored task, answered 401 with
\* the store not read.
C8_Witness ==
    /\ reply.status = 401 /\ ~reply.read
    /\ reply.op = "toggle_task_complete"
    /\ reply.id \in DOMAIN tasks

C10_LastWriteWins ==
    [][\A rq \in BagToSet(inflight) :
          (update_task_write(rq) \/ toggle_task_complete_write(rq)) =>
             /\ rq.id \in DOMAIN tasks'
             /\ \A k \in DOMAIN rq.fields : tasks'[rq.id][k] = rq.fields[k]]_vars

\* C10 as amended: the delete wins in either order.  The write of a delete is
\* answered 200 and leaves the task absent; the write of an update or toggle
\* on a task that is still stored overwrites the fields it carries and is
\* answered 200; on a task that is gone it is answered 500 and stores nothing.
\* A queued request leaves the queue only by its own write, with a response.
C10_DeleteWins ==
    [][\A rq \in BagToSet(inflight) :
          /\ delete_task_write(rq) =>
                reply'.status = 200 /\ tasks' = Restrict(tasks, DOMAIN tasks \ {rq.id})
          /\ ((update_task_write(rq) \/ toggle_task_complete_write(rq))
                /\ DOMAIN rq.fields # {}) =>
                IF rq.id \in DOMAIN tasks
                THEN /\ reply'.status = 200
                     /\ tasks' = [tasks EXCEPT ![rq.id] = Merge(tasks[rq.id], rq.fields)]
                ELSE reply'.status = 500 /\ tasks' = tasks
          /\ CopiesIn(rq, inflight') < CopiesIn(rq, inflight) =>
                /\ reply'.status \in {200, 500}
                /\ reply'.id = rq.id /\ reply'.op = rq.op]_vars

\* C10 witness: an update whose write came after the task's deletion, answered 500.
C10_Witness ==
    /\ reply.op = "update_task" /\ reply.status = 500
    /\ reply.id \in deleted
    /\ reply.id \notin DOMAIN tasks

====
